---- MODULE Spec2Model ----
(***************************************************************************)
(* UniAZ: the position-dependent substitution cipher (src/src/cipher.rs)   *)
(* and the character / string facade built on it (src/src/lib.rs).         *)
(*                                                                         *)
(* A char is its code point (a natural number); a String or Vec<char> is a *)
(* sequence of chars.  Rust indexes from 0 and TLA+ sequences from 1: the  *)
(* model keeps the source's 0-based positions (i, j, skip_idx, pos) and    *)
(* adds 1 only where a sequence is indexed.  A panic is a value of the     *)
(* model ("none" when there is none), so that a run that panics is a state *)
(* of the model and not an evaluation error.                               *)
(***************************************************************************)
EXTENDS Integers, Sequences, FiniteSets, TLC

VARIABLES
    \* the engine (Cipher) and its driver
    cipher,       \* the Cipher: alphabet, radix, val_map_array
    input,        \* the &str handed to the engine by its driver
    n,            \* the iteration count handed to Cipher::encrypt / Cipher::decrypt
    pc,           \* where the run is
    res,          \* `res` of Cipher::encrypt / Cipher::decrypt
    iter,         \* passes completed by the running encrypt / decrypt loop
    digit_list,   \* `digit_list` of the running encrypt_once / decrypt_once
    i,            \* position the running pass is about to process (0-based)
    panic,        \* "none", or the panic that ended the run
    roundtrip,    \* TRUE: encrypt, then decrypt of the result; FALSE: decrypt only
    fwd,          \* history: per forward pass, what each position step saw
    last,         \* history: the last position step taken
    \* UniAz::encrypt / UniAz::decrypt
    caller,       \* who called the engine: "driver" or "UniAz"
    plain,        \* the char handed to UniAz::encrypt (-1: none)
    cipher_text,  \* the &str handed to UniAz::decrypt
    outcome,      \* the Result UniAz::decrypt returned
    \* UniAz::encrypt_str / UniAz::decrypt_str
    str_in,       \* the &str handed to encrypt_str
    wire,         \* the &str handed to decrypt_str
    tokens,       \* the Vec encrypt_str collects; what is left of the iterator of decrypt_str
    result,       \* `result` of decrypt_str
    str_out,      \* the Result decrypt_str returned
    calls,        \* history: calls of UniAz::decrypt made by decrypt_str
    \* Cipher::disorder, called on (&digit_list, i)
    d_obj,        \* `obj`: the table being permuted
    d_i,          \* `i` of disorder: its loop index
    d_j,          \* history: the seeds `j` computed so far, as <<index, seed>> pairs
    d_pos_map     \* `pos_map`: the char -> index table disorder returns

engineVars == <<cipher, input, n, pc, res, iter, digit_list, i, panic, roundtrip, fwd, last>>
charVars == <<caller, plain, cipher_text, outcome>>
strVars == <<str_in, wire, tokens, result, str_out, calls>>
disorderVars == <<d_obj, d_i, d_j, d_pos_map>>
vars == <<engineVars, charVars, strVars, disorderVars>>

----------------------------------------------------------------------------
(* Bounds of the model *)

MaxLen == 3       \* longest digit sequence handed to the engine
MaxIter == 2      \* largest iteration count n
MaxRadix == 3     \* longest of the small alphabets
MaxCp == 700      \* UniAz::encrypt is run on every char up to this one
MaxTextLen == 3   \* longest arbitrary text handed to UniAz::decrypt
MaxStrLen == 2    \* longest string handed to encrypt_str
MaxTokens == 3    \* most tokens in a text handed to decrypt_str

(* Program constants *)

TABLE_SIZE == 256      \* val_map_array: [u64; 256], pos_map: [u8; 256]
POS_NOT_FOUND == 255   \* pos_map = [255u8; 256]
U64_MAX == -1          \* u64::MAX, the "not in alphabet" sentinel: the one value
                       \* no alphabet index (a usize below the radix) can take

----------------------------------------------------------------------------
(* Helpers on sequences *)

Range(s) == {s[k] : k \in 1..Len(s)}

MaxOf(S) == CHOOSE x \in S : \A y \in S : y <= x

SeqsUpTo(S, len) == UNION {[1..m -> S] : m \in 0..len}

\* digits with the symbol at 0-based position skip removed
Others(digits, skip) ==
    [k \in 1..(Len(digits) - 1) |-> IF k <= skip THEN digits[k] ELSE digits[k + 1]]

----------------------------------------------------------------------------
(* Cipher::new *)

\* val_map_array after the population loop: each entry holds the sentinel, or
\* the last alphabet position holding that char
populate(alph) ==
    [index \in 0..(TABLE_SIZE - 1) |->
        LET hits == {k \in 1..Len(alph) : alph[k] = index}
        IN  IF hits = {} THEN U64_MAX ELSE MaxOf(hits) - 1]

NoCipher == [alphabet |-> <<>>, radix |-> 0, val_map_array |-> <<>>]

Cipher_new(pattern) ==
    IF Len(pattern) = 0 THEN
        [panic |-> "empty_alphabet", cipher |-> NoCipher]
    ELSE IF \E k \in 1..Len(pattern) : pattern[k] >= TABLE_SIZE THEN
        [panic |-> "non_ascii_alphabet", cipher |-> NoCipher]
    ELSE
        [panic |-> "none",
         cipher |-> [alphabet |-> pattern, radix |-> Len(pattern),
                     val_map_array |-> populate(pattern)]]

----------------------------------------------------------------------------
(* Cipher::char_to_val *)

char_to_val(self, c) ==
    IF c >= TABLE_SIZE THEN [panic |-> "non_ascii", val |-> 0]
    ELSE IF self.val_map_array[c] = U64_MAX THEN [panic |-> "unknown_symbol", val |-> 0]
    ELSE [panic |-> "none", val |-> self.val_map_array[c]]

(* Cipher::get_seed_mod *)

RECURSIVE seed_loop(_, _, _, _, _, _, _)
\* the for loop from 0-based index k on, with the locals it has there
seed_loop(self, digits, skip_idx, modulus, k, remainder, is_empty) ==
    IF k >= Len(digits) THEN
        [panic |-> "none", val |-> IF is_empty THEN 0 ELSE remainder]
    ELSE IF k = skip_idx THEN
        seed_loop(self, digits, skip_idx, modulus, k + 1, remainder, is_empty)
    ELSE
        LET v == char_to_val(self, digits[k + 1])
        IN  IF v.panic # "none" THEN v
            ELSE seed_loop(self, digits, skip_idx, modulus, k + 1,
                           (remainder * self.radix + v.val) % modulus, FALSE)

\* get_seed_mod reducing modulo modulus + 1
get_seed_mod_off_by_one(self, digits, skip_idx, modulus) ==
    IF modulus = 0 THEN [panic |-> "none", val |-> 0]
    ELSE seed_loop(self, digits, skip_idx, modulus + 1, 0, 0, TRUE)

get_seed_mod(self, digits, skip_idx, modulus) ==
    IF modulus = 0 THEN [panic |-> "none", val |-> 0]
    ELSE seed_loop(self, digits, skip_idx, modulus, 0, 0, TRUE)

(* Cipher::disorder *)

\* obj.swap(a, b), 0-based; the caller checks the bounds
swap(obj, a, b) == [obj EXCEPT ![a + 1] = obj[b + 1], ![b + 1] = obj[a + 1]]

\* one turn of the loop `for i in (1..obj.len()).rev()`, at index k, on the
\* table (or the panic) the turns before it left
disorder_turn(self, digits, skip_idx, st, k) ==
    IF st.panic # "none" THEN st
    ELSE
        LET j == get_seed_mod(self, digits, skip_idx, k + 1)
        IN  IF j.panic # "none" THEN [panic |-> j.panic, obj |-> st.obj]
            ELSE IF j.val >= Len(st.obj) THEN [panic |-> "index_out_of_bounds", obj |-> st.obj]
            ELSE [panic |-> "none", obj |-> swap(st.obj, k, j.val)]

RECURSIVE disorder_loop(_, _, _, _, _, _)
\* the turns at indices hi, hi-1, ..., lo in that order (evaluated by halves,
\* which keeps the evaluation shallow for a 256-symbol alphabet)
disorder_loop(self, digits, skip_idx, st, hi, lo) ==
    IF hi < lo THEN st
    ELSE IF hi = lo THEN disorder_turn(self, digits, skip_idx, st, hi)
    ELSE LET mid == (hi + lo) \div 2
             upper == disorder_loop(self, digits, skip_idx, st, hi, mid + 1)
         IN  IF upper.panic # "none" THEN upper
             ELSE disorder_loop(self, digits, skip_idx, upper, mid, lo)

\* the permutation (obj starts as self.alphabet.clone()); pos_map is pos_map_of below
disorder(self, digits, skip_idx) ==
    disorder_loop(self, digits, skip_idx,
                  [panic |-> "none", obj |-> SubSeq(self.alphabet, 1, Len(self.alphabet))],
                  Len(self.alphabet) - 1, 1)

\* pos_map[c] as the loop `pos_map[c as usize] = idx as u8` over obj leaves it,
\* starting from the table `base`: the last index holding c, cut to a u8
pos_map_of(obj, base, c) ==
    LET hits == {k \in 1..Len(obj) : obj[k] = c}
    IN  IF hits = {} THEN base ELSE (MaxOf(hits) - 1) % TABLE_SIZE

reverse(s) == [k \in 1..Len(s) |-> s[Len(s) + 1 - k]]

----------------------------------------------------------------------------
(* One position of encrypt_once / decrypt_once *)

\* rotate with the new position stored in place of the symbol found there
rotate_stores_position(self, digits, idx, capacity, pos, seed_mod_radix) ==
    LET offset == seed_mod_radix + idx * idx + 1
        new_pos == (pos + offset) % self.radix
    IN  [panic |-> "none", digits |-> [digits EXCEPT ![idx + 1] = new_pos],
         guard |-> FALSE, offset |-> offset, capacity |-> capacity]

\* the body of the position loop once the permutation `capacity`, the table
\* entry `pos` of the current char and the seed are known
rotate(self, digits, idx, capacity, pos, seed_mod_radix) ==
    LET offset == seed_mod_radix + idx * idx + 1
        new_pos == (pos + offset) % self.radix
    IN  IF pos # POS_NOT_FOUND
        THEN [panic |-> "none", digits |-> [digits EXCEPT ![idx + 1] = capacity[new_pos + 1]],
              guard |-> FALSE, offset |-> offset, capacity |-> capacity]
        ELSE [panic |-> "none", digits |-> digits,
              guard |-> TRUE, offset |-> offset, capacity |-> capacity]

Panicked(what, digits) ==
    [panic |-> what, digits |-> digits, guard |-> FALSE, offset |-> 0, capacity |-> <<>>]

encrypt_step(self, digits, idx) ==
    LET current_char == digits[idx + 1]
        d == disorder(self, digits, idx)
        s == get_seed_mod(self, digits, idx, self.radix)
    IN  IF d.panic # "none" THEN Panicked(d.panic, digits)
        ELSE IF s.panic # "none" THEN Panicked(s.panic, digits)
        ELSE IF current_char >= TABLE_SIZE THEN Panicked("index_out_of_bounds", digits)
        ELSE rotate(self, digits, idx, d.obj,
                    pos_map_of(d.obj, POS_NOT_FOUND, current_char), s.val)

\* decrypt_step without `capacity.reverse()`
decrypt_step_not_reversed(self, digits, idx) ==
    LET current_char == digits[idx + 1]
        d == disorder(self, digits, idx)
        s == get_seed_mod(self, digits, idx, self.radix)
    IN  IF d.panic # "none" THEN Panicked(d.panic, digits)
        ELSE IF s.panic # "none" THEN Panicked(s.panic, digits)
        ELSE IF current_char >= TABLE_SIZE THEN Panicked("index_out_of_bounds", digits)
        ELSE rotate(self, digits, idx, d.obj,
                    pos_map_of(d.obj, POS_NOT_FOUND, current_char), s.val)

decrypt_step(self, digits, idx) ==
    LET current_char == digits[idx + 1]
        d == disorder(self, digits, idx)
        capacity == reverse(d.obj)
        s == get_seed_mod(self, digits, idx, self.radix)
    IN  IF d.panic # "none" THEN Panicked(d.panic, digits)
        ELSE IF s.panic # "none" THEN Panicked(s.panic, digits)
        ELSE IF current_char >= TABLE_SIZE THEN Panicked("index_out_of_bounds", digits)
        ELSE rotate(self, digits, idx, capacity,
                    pos_map_of(capacity, pos_map_of(d.obj, POS_NOT_FOUND, current_char),
                               current_char),
                    s.val)

----------------------------------------------------------------------------
(* The engine as pure functions: a whole pass, a whole encrypt / decrypt *)

RECURSIVE encrypt_once_from(_, _, _)
encrypt_once_from(self, digits, idx) ==
    IF idx >= Len(digits) THEN [panic |-> "none", out |-> digits]
    ELSE LET r == encrypt_step(self, digits, idx)
         IN  IF r.panic # "none" THEN [panic |-> r.panic, out |-> digits]
             ELSE encrypt_once_from(self, r.digits, idx + 1)

encrypt_once(self, s) == encrypt_once_from(self, s, 0)

RECURSIVE decrypt_once_from(_, _, _)
decrypt_once_from(self, digits, idx) ==
    IF idx < 0 THEN [panic |-> "none", out |-> digits]
    ELSE LET r == decrypt_step(self, digits, idx)
         IN  IF r.panic # "none" THEN [panic |-> r.panic, out |-> digits]
             ELSE decrypt_once_from(self, r.digits, idx - 1)

decrypt_once(self, s) == decrypt_once_from(self, s, Len(s) - 1)

RECURSIVE Cipher_encrypt(_, _, _)
Cipher_encrypt(self, s, iteration) ==
    IF iteration = 0 THEN [panic |-> "none", out |-> s]
    ELSE LET r == encrypt_once(self, s)
         IN  IF r.panic # "none" THEN r ELSE Cipher_encrypt(self, r.out, iteration - 1)

RECURSIVE Cipher_decrypt(_, _, _)
Cipher_decrypt(self, s, iteration) ==
    IF iteration = 0 THEN [panic |-> "none", out |-> s]
    ELSE LET r == decrypt_once(self, s)
         IN  IF r.panic # "none" THEN r ELSE Cipher_decrypt(self, r.out, iteration - 1)

----------------------------------------------------------------------------
(* The codec: anybase::Converter, an external crate.  It is modelled as the *)
(* positional numeral transcoder the specification describes: repeated long *)
(* division of the digit string, which never forms the number itself.       *)

IndexIn(alph, c) == CHOOSE k \in 1..Len(alph) : alph[k] = c

RECURSIVE long_division(_, _, _, _, _, _)
\* one long division of the digit values ds (base from_base) by to_base, from
\* 1-based index k on: the quotient's digits so far and the running remainder
long_division(ds, from_base, to_base, k, quotient, divide) ==
    IF k > Len(ds) THEN [quotient |-> quotient, remainder |-> divide]
    ELSE LET d == divide * from_base + ds[k]
         IN  IF d >= to_base
             THEN long_division(ds, from_base, to_base, k + 1,
                                Append(quotient, d \div to_base), d % to_base)
             ELSE long_division(ds, from_base, to_base, k + 1,
                                IF quotient = <<>> THEN quotient ELSE Append(quotient, 0), d)

RECURSIVE transcode(_, _, _, _)
\* the digits of ds in base to_base, most significant first, prepended to low
transcode(ds, from_base, to_base, low) ==
    LET q == long_division(ds, from_base, to_base, 1, <<>>, 0)
    IN  IF q.quotient = <<>> THEN <<q.remainder>> \o low
        ELSE transcode(q.quotient, from_base, to_base, <<q.remainder>> \o low)

\* Converter::convert: the set of results it may give.  A string with a char
\* outside the source alphabet is an error; what the crate makes of the empty
\* string is not known from this repository, so each plausible result is kept.
Converter_convert(src, dst, number) ==
    IF \E k \in 1..Len(number) : number[k] \notin Range(src) THEN
        {[ok |-> FALSE, out |-> <<>>]}
    ELSE IF number = <<>> THEN
        {[ok |-> FALSE, out |-> <<>>], [ok |-> TRUE, out |-> <<>>], [ok |-> TRUE, out |-> <<dst[1]>>]}
    ELSE
        LET ds == [k \in 1..Len(number) |-> IndexIn(src, number[k]) - 1]
            out == transcode(ds, Len(src), Len(dst), <<>>)
        IN  {[ok |-> TRUE, out |-> [k \in 1..Len(out) |-> dst[out[k] + 1]]]}

----------------------------------------------------------------------------
(* std: u32 and char *)

U32_MAX_DIGITS == <<4, 2, 9, 4, 9, 6, 7, 2, 9, 5>>     \* u32::MAX = 4294967295
CHAR_MAX == 1114111                                    \* char::MAX, 0x10FFFF
SURROGATE_FIRST == 55296                               \* 0xD800
SURROGATE_LAST == 57343                                \* 0xDFFF

\* (plain as u32).to_string(): the decimal digits of v, as chars
RECURSIVE to_string(_)
to_string(v) ==
    IF v < 10 THEN <<48 + v>> ELSE Append(to_string(v \div 10), 48 + (v % 10))

RECURSIVE strip_zeros(_)
strip_zeros(ds) ==
    IF Len(ds) > 1 /\ ds[1] = 0 THEN strip_zeros(Tail(ds)) ELSE ds

RECURSIVE digits_le(_, _)
\* a <= b for digit sequences of one length
digits_le(a, b) ==
    IF a = <<>> THEN TRUE
    ELSE IF a[1] # b[1] THEN a[1] < b[1]
    ELSE digits_le(Tail(a), Tail(b))

RECURSIVE digits_value(_)
digits_value(ds) ==
    IF ds = <<>> THEN 0 ELSE 10 * digits_value(SubSeq(ds, 1, Len(ds) - 1)) + ds[Len(ds)]

\* u32::from_str: digits only (a leading '+' is accepted), not empty, no
\* overflow.  The u32 is kept as its decimal digits without leading zeros.
u32_from_str(numeric) ==
    LET body == IF numeric # <<>> /\ numeric[1] = 43 THEN Tail(numeric) ELSE numeric
        ds == strip_zeros([k \in 1..Len(body) |-> body[k] - 48])
    IN  IF body = <<>> \/ \E k \in 1..Len(body) : body[k] \notin 48..57 THEN
            [ok |-> FALSE, digits |-> <<>>]
        ELSE IF Len(ds) > Len(U32_MAX_DIGITS)
                \/ (Len(ds) = Len(U32_MAX_DIGITS) /\ ~digits_le(ds, U32_MAX_DIGITS)) THEN
            [ok |-> FALSE, digits |-> <<>>]
        ELSE [ok |-> TRUE, digits |-> ds]

\* char::from_u32 on a u32 given by its digits
char_from_u32(ds) ==
    IF Len(ds) > 7 THEN [ok |-> FALSE, char |-> 0]
    ELSE LET cp == digits_value(ds)
         IN  IF cp > CHAR_MAX \/ cp \in SURROGATE_FIRST..SURROGATE_LAST
             THEN [ok |-> FALSE, char |-> 0]
             ELSE [ok |-> TRUE, char |-> cp]

\* char::is_ascii_alphabetic in place of is_ascii_lowercase
is_ascii_alphabetic(c) == c \in (65..90) \cup (97..122)

is_ascii_lowercase(c) == c \in 97..122

\* char::is_whitespace: the White_Space code points
is_whitespace(c) ==
    c \in (9..13) \cup {32, 133, 160, 5760, 8232, 8233, 8239, 8287, 12288} \cup (8192..8202)

RECURSIVE split_loop(_, _, _, _)
split_loop(text, k, token, out) ==
    IF k > Len(text) THEN (IF token = <<>> THEN out ELSE Append(out, token))
    ELSE IF is_whitespace(text[k])
         THEN split_loop(text, k + 1, <<>>, IF token = <<>> THEN out ELSE Append(out, token))
         ELSE split_loop(text, k + 1, Append(token, text[k]), out)

\* str::split_whitespace: the maximal runs of chars that are not whitespace
split_whitespace(text) == split_loop(text, 1, <<>>, <<>>)

\* the Strings one after the other, with nothing between them
RECURSIVE join_without_separator(_, _)
join_without_separator(v, sep) ==
    IF v = <<>> THEN <<>> ELSE v[1] \o join_without_separator(Tail(v), sep)

\* [String]::join
RECURSIVE join(_, _)
join(v, sep) ==
    IF v = <<>> THEN <<>>
    ELSE IF Len(v) = 1 THEN v[1]
    ELSE v[1] \o sep \o join(Tail(v), sep)

----------------------------------------------------------------------------
(* UniAz *)

ALPHABET == [k \in 1..26 |-> 96 + k]                        \* "abcdefghijklmnopqrstuvwxyz"
DECIMAL == <<48, 49, 50, 51, 52, 53, 54, 55, 56, 57>>      \* "0123456789"
ENCRYPT_ITERATIONS == 2
DECRYPT_ITERATIONS == 2

\* Result<char, DecryptError>; an Err carries no char (-1)
Ok(c) == [tag |-> "Ok", char |-> c, err |-> "none"]
Err(e) == [tag |-> "Err", char |-> -1, err |-> e]

\* the check with `any` in place of `all`
any_ascii_lowercase(text) == \E k \in 1..Len(text) : is_ascii_lowercase(text[k])

\* the check that opens UniAz::decrypt
all_ascii_lowercase(text) == \A k \in 1..Len(text) : is_ascii_lowercase(text[k])

\* UniAz::encrypt up to the call of cipher.encrypt: the numeral of the char
UniAz_numeral(ch) ==
    {r.out : r \in {c \in Converter_convert(DECIMAL, ALPHABET, to_string(ch)) : c.ok}}

\* UniAz::decrypt from the return of cipher.decrypt on: the Results it may give
UniAz_finish(decrypted) ==
    {IF ~r.ok THEN Err("InvalidToken")
     ELSE LET cp == u32_from_str(r.out)
          IN  IF ~cp.ok THEN Err("InvalidToken")
              ELSE LET c == char_from_u32(cp.digits)
                   IN  IF c.ok THEN Ok(c.char) ELSE Err("InvalidCodepoint")
       : r \in Converter_convert(ALPHABET, DECIMAL, decrypted)}

\* UniAz::encrypt as a function: the String, or "panic"
UniAz_encrypt(self, ch) ==
    {IF r.panic = "none" THEN r.out ELSE "panic"
       : r \in {Cipher_encrypt(self, numeral, ENCRYPT_ITERATIONS) : numeral \in UniAz_numeral(ch)}}

\* UniAz::decrypt as a function: the Results it may give (Err("panic") for a panic)
UniAz_decrypt(self, text) ==
    IF ~all_ascii_lowercase(text) THEN {Err("InvalidCipherText")}
    ELSE LET r == Cipher_decrypt(self, text, DECRYPT_ITERATIONS)
         IN  IF r.panic # "none" THEN {Err("panic")} ELSE UniAz_finish(r.out)

----------------------------------------------------------------------------
(* The alphabets and inputs of the model *)

FULL_BYTE == [k \in 1..TABLE_SIZE |-> k - 1]                \* every single-byte symbol
NON_ASCII == <<48, 20320>>                                  \* holds a char above 255

PatternSyms == {48, 49}
ForeignSyms == {33, 20320}    \* '!' and a char above 255; in none of the small alphabets

Patterns ==
    SeqsUpTo(PatternSyms, MaxRadix) \cup {DECIMAL, ALPHABET, FULL_BYTE, NON_ASCII}

\* the ciphers Cipher::new builds from the patterns it accepts
Ciphers == {Cipher_new(p).cipher : p \in {q \in Patterns : Cipher_new(q).panic = "none"}}

\* inputs draw from the first, the middle and the last symbol of the alphabet
InputSyms(alph) == {alph[1], alph[(Len(alph) + 1) \div 2], alph[Len(alph)]}

\* digit sequences over the alphabet, and those with one foreign symbol in them
WellFormed(alph) == SeqsUpTo(InputSyms(alph), MaxLen)

Tainted(alph) ==
    {[d EXCEPT ![p] = f] : <<d, p, f>> \in
        {t \in WellFormed(alph) \X (1..MaxLen) \X ForeignSyms : t[2] <= Len(t[1])}}

Inputs(alph) == WellFormed(alph) \cup Tainted(alph)

OverAlphabet(alph, d) == \A k \in 1..Len(d) : \E m \in 1..Len(alph) : alph[m] = d[k]

Distinct(alph) == \A a, b \in 1..Len(alph) : alph[a] = alph[b] => a = b

----------------------------------------------------------------------------
(* The engine, position by position.  The driver is the round trip of the  *)
(* tests: encrypt(input, n), then decrypt of the result with the same n;   *)
(* or decrypt(input, n) alone.                                             *)

NoStep == [kind |-> "none", idx |-> 0, guard |-> FALSE, before |-> <<>>, after |-> <<>>]

NoOutcome == [tag |-> "none", char |-> -1, err |-> "none"]

\* Result<String, DecryptError>; an Err carries no String
OkStr(str) == [tag |-> "Ok", str |-> str, err |-> "none"]
ErrStr(e) == [tag |-> "Err", str |-> <<>>, err |-> e]
NoStrOutcome == [tag |-> "none", str |-> <<>>, err |-> "none"]

SEPARATOR == <<32>>                                         \* " "

\* a loop body that drops a token that fails and goes on to the next
decrypt_str_turn_skipping(so_far, o) ==
    [returned |-> FALSE, str_out |-> NoStrOutcome,
     result |-> IF o.tag = "Err" THEN so_far ELSE Append(so_far, o.char)]

\* the body of the loop of decrypt_str once self.decrypt(token) has returned o:
\* `?` returns the Err from decrypt_str, else the char is pushed
decrypt_str_turn(so_far, o) ==
    IF o.tag = "Err"
    THEN [returned |-> TRUE, str_out |-> ErrStr(o.err), result |-> so_far]
    ELSE [returned |-> FALSE, str_out |-> NoStrOutcome, result |-> Append(so_far, o.char)]

CharIdle ==
    /\ plain = -1
    /\ cipher_text = <<>>
    /\ outcome = NoOutcome

StrIdle ==
    /\ str_in = <<>>
    /\ wire = <<>>
    /\ tokens = <<>>
    /\ result = <<>>
    /\ str_out = NoStrOutcome
    /\ calls = 0

DisorderIdle ==
    /\ d_obj = <<>>
    /\ d_i = 0
    /\ d_j = <<>>
    /\ d_pos_map = <<>>

EngineIdle ==
    /\ input = <<>>
    /\ n = 0
    /\ res = <<>>
    /\ iter = 0
    /\ digit_list = <<>>
    /\ i = 0
    /\ panic = "none"
    /\ fwd = <<>>
    /\ last = NoStep

Init ==
    /\ cipher \in Ciphers
    /\ input \in Inputs(cipher.alphabet)
    /\ n \in 0..MaxIter
    /\ roundtrip \in BOOLEAN
    /\ pc = IF roundtrip THEN "encrypt" ELSE "decrypt"
    /\ res = input
    /\ iter = 0
    /\ digit_list = <<>>
    /\ i = 0
    /\ panic = "none"
    /\ fwd = <<>>
    /\ last = NoStep
    /\ caller = "driver"
    /\ CharIdle
    /\ StrIdle
    /\ DisorderIdle

\* Cipher::encrypt: one more turn of `for _ in 0..iteration`, entering encrypt_once
EncryptLoop ==
    /\ pc = "encrypt"
    /\ iter < n
    /\ pc' = "encrypt_once"
    /\ digit_list' = res
    /\ i' = 0
    /\ fwd' = Append(fwd, <<>>)
    /\ UNCHANGED <<cipher, input, n, res, iter, panic, roundtrip, last, charVars, strVars, disorderVars>>

\* one position of encrypt_once
EncryptOnceStep ==
    /\ pc = "encrypt_once"
    /\ i < Len(digit_list)
    /\ \E r \in {encrypt_step(cipher, digit_list, i)} :
           IF r.panic # "none"
           THEN /\ pc' = "panicked"
                /\ panic' = r.panic
                /\ UNCHANGED <<digit_list, i, fwd, last>>
           ELSE /\ digit_list' = r.digits
                /\ i' = i + 1
                /\ fwd' = [fwd EXCEPT ![Len(fwd)] =
                              Append(@, [others |-> Others(digit_list, i),
                                         capacity |-> r.capacity,
                                         offset |-> r.offset])]
                /\ last' = [kind |-> "forward", idx |-> i, guard |-> r.guard,
                            before |-> digit_list, after |-> r.digits]
                /\ UNCHANGED <<pc, panic>>
    /\ UNCHANGED <<cipher, input, n, res, iter, roundtrip, charVars, strVars, disorderVars>>

\* encrypt_once returns: `res = self.encrypt_once(&res)`
EncryptOnceReturn ==
    /\ pc = "encrypt_once"
    /\ i >= Len(digit_list)
    /\ res' = digit_list
    /\ iter' = iter + 1
    /\ pc' = "encrypt"
    /\ digit_list' = <<>>
    /\ i' = 0
    /\ UNCHANGED <<cipher, input, n, panic, roundtrip, fwd, last, charVars, strVars, disorderVars>>

\* Cipher::encrypt returns res, and the round trip goes on: the driver hands res
\* to Cipher::decrypt, the String UniAz::encrypt returns goes to UniAz::decrypt,
\* and inside encrypt_str it is collected into the Vec
EncryptReturn ==
    /\ pc = "encrypt"
    /\ iter >= n
    /\ pc' = CASE caller = "UniAz" -> "uz_decrypt"
              [] caller = "str" -> "es_loop"
              [] OTHER -> "decrypt"
    /\ cipher_text' = IF caller = "UniAz" THEN res ELSE cipher_text
    /\ tokens' = IF caller = "str" THEN Append(tokens, res) ELSE tokens
    /\ iter' = 0
    /\ UNCHANGED <<cipher, input, n, res, digit_list, i, panic, roundtrip, fwd, last,
                   caller, plain, outcome, str_in, wire, result, str_out, calls, disorderVars>>

\* Cipher::decrypt: one more turn of the loop, entering decrypt_once
DecryptLoop ==
    /\ pc = "decrypt"
    /\ iter < n
    /\ pc' = "decrypt_once"
    /\ digit_list' = res
    /\ i' = Len(res) - 1
    /\ UNCHANGED <<cipher, input, n, res, iter, panic, roundtrip, fwd, last, charVars, strVars, disorderVars>>

\* one position of decrypt_once
DecryptOnceStep ==
    /\ pc = "decrypt_once"
    /\ i >= 0
    /\ \E r \in {decrypt_step(cipher, digit_list, i)} :
           IF r.panic # "none"
           THEN /\ pc' = "panicked"
                /\ panic' = r.panic
                /\ UNCHANGED <<digit_list, i, last>>
           ELSE /\ digit_list' = r.digits
                /\ i' = i - 1
                /\ last' = [kind |-> "backward", idx |-> i, guard |-> r.guard,
                            before |-> digit_list, after |-> r.digits]
                /\ UNCHANGED <<pc, panic>>
    /\ UNCHANGED <<cipher, input, n, res, iter, roundtrip, fwd, charVars, strVars, disorderVars>>

\* decrypt_once returns: `res = self.decrypt_once(&res)`
DecryptOnceReturn ==
    /\ pc = "decrypt_once"
    /\ i < 0
    /\ res' = digit_list
    /\ iter' = iter + 1
    /\ pc' = "decrypt"
    /\ digit_list' = <<>>
    /\ i' = 0
    /\ fwd' = IF fwd = <<>> THEN fwd ELSE SubSeq(fwd, 1, Len(fwd) - 1)
    /\ UNCHANGED <<cipher, input, n, panic, roundtrip, last, charVars, strVars, disorderVars>>

\* Cipher::decrypt returns res, to the driver or into UniAz::decrypt
DecryptReturn ==
    /\ pc = "decrypt"
    /\ iter >= n
    /\ pc' = IF caller = "driver" THEN "done" ELSE "uz_convert"
    /\ UNCHANGED <<cipher, input, n, res, iter, digit_list, i, panic, roundtrip, fwd, last,
                   charVars, strVars, disorderVars>>

Engine ==
    \/ EncryptLoop
    \/ EncryptOnceStep
    \/ EncryptOnceReturn
    \/ EncryptReturn
    \/ DecryptLoop
    \/ DecryptOnceStep
    \/ DecryptOnceReturn
    \/ DecryptReturn

Next == Engine

Spec == Init /\ [][Next]_vars

----------------------------------------------------------------------------
(* UniAz::encrypt and UniAz::decrypt, with the engine run position by       *)
(* position.  A run is the round trip of tests::test_all_codepoints         *)
(* (encrypt a char, decrypt the String), or decrypt alone of a text.        *)

\* a string of decimal digits, as chars
Str(ds) == [k \in 1..Len(ds) |-> 48 + ds[k]]

IsScalar(cp) == cp \in 0..CHAR_MAX /\ cp \notin SURROGATE_FIRST..SURROGATE_LAST

\* chars beyond the dense range: the first and last numerals of each length,
\* the edges of the surrogate gap, 'A', a CJK char, an emoji, char::MAX
SampleCodePoints ==
    {65, 675, 676, 17575, 17576, 20320, 55295, 57344, 65535, 65536, 128512,
     456975, 456976, 1114111}

CodePoints == {cp \in (0..MaxCp) \cup SampleCodePoints : IsScalar(cp)}

\* 'a', 'm', 'z'; '`' and '{' on either side of a-z; 'A', '1', ' ', and a CJK char
TextSyms == {97, 109, 122, 96, 123, 65, 49, 32, 20320}

\* numbers that are no char: the surrogates' edges, char::MAX + 1, u32::MAX,
\* u32::MAX + 1, and 26^7 - 1 (the largest seven-letter numeral)
SpecialDecimals ==
    {Str(<<5, 5, 2, 9, 6>>), Str(<<5, 7, 3, 4, 3>>), Str(<<1, 1, 1, 4, 1, 1, 2>>),
     Str(<<4, 2, 9, 4, 9, 6, 7, 2, 9, 5>>), Str(<<4, 2, 9, 4, 9, 6, 7, 2, 9, 6>>),
     Str(<<8, 0, 3, 1, 8, 1, 0, 1, 7, 5>>)}

\* the token whose two backward passes give the numeral of the decimal string
TokenOf(decimal) ==
    LET numeral == (CHOOSE r \in Converter_convert(DECIMAL, ALPHABET, decimal) : r.ok).out
    IN  Cipher_encrypt(Cipher_new(ALPHABET).cipher, numeral, ENCRYPT_ITERATIONS).out

SpecialTexts == {TokenOf(d) : d \in SpecialDecimals}

Texts == SeqsUpTo(TextSyms, MaxTextLen) \cup SpecialTexts

InitChar ==
    /\ cipher = Cipher_new(ALPHABET).cipher
    /\ caller = "UniAz"
    /\ roundtrip \in BOOLEAN
    /\ IF roundtrip
       THEN /\ plain \in CodePoints
            /\ cipher_text = <<>>
            /\ pc = "uz_encrypt"
       ELSE /\ plain = -1
            /\ cipher_text \in Texts
            /\ pc = "uz_decrypt"
    /\ outcome = NoOutcome
    /\ EngineIdle
    /\ StrIdle
    /\ DisorderIdle

\* UniAz::encrypt up to its call of cipher.encrypt(&converted, 2)
UzEncrypt ==
    /\ pc = "uz_encrypt"
    /\ IF UniAz_numeral(plain) = {}
       THEN /\ pc' = "panicked"
            /\ panic' = "expect"
            /\ UNCHANGED <<res, n, iter>>
       ELSE /\ \E converted \in UniAz_numeral(plain) : res' = converted
            /\ n' = ENCRYPT_ITERATIONS
            /\ iter' = 0
            /\ pc' = "encrypt"
            /\ UNCHANGED panic
    /\ UNCHANGED <<cipher, input, digit_list, i, roundtrip, fwd, last, charVars, strVars, disorderVars>>

\* UniAz::decrypt up to its call of cipher.decrypt(cipher, 2)
UzDecrypt ==
    /\ pc = "uz_decrypt"
    /\ IF ~all_ascii_lowercase(cipher_text)
       THEN /\ outcome' = Err("InvalidCipherText")
            /\ pc' = IF caller = "str" THEN "ds_result" ELSE "uz_done"
            /\ UNCHANGED <<res, n, iter>>
       ELSE /\ res' = cipher_text
            /\ n' = DECRYPT_ITERATIONS
            /\ iter' = 0
            /\ pc' = "decrypt"
            /\ UNCHANGED outcome
    /\ UNCHANGED <<cipher, input, digit_list, i, panic, roundtrip, fwd, last,
                   caller, plain, cipher_text, strVars, disorderVars>>

\* UniAz::decrypt from the return of cipher.decrypt on
UzFinish ==
    /\ pc = "uz_convert"
    /\ \E o \in UniAz_finish(res) : outcome' = o
    /\ pc' = IF caller = "str" THEN "ds_result" ELSE "uz_done"
    /\ UNCHANGED <<cipher, input, n, res, iter, digit_list, i, panic, roundtrip, fwd, last,
                   caller, plain, cipher_text, strVars, disorderVars>>

NextChar ==
    \/ UzEncrypt
    \/ UzDecrypt
    \/ UzFinish
    \/ Engine

SpecChar == InitChar /\ [][NextChar]_vars

----------------------------------------------------------------------------
(* UniAz::encrypt_str and UniAz::decrypt_str, with every call of            *)
(* UniAz::encrypt and UniAz::decrypt run step by step.  A run is the round  *)
(* trip of tests::test_encrypt_decrypt_str, or decrypt_str alone of a text. *)

\* NUL, newline, space, 'A', the ideographic space and a CJK char
StrSyms == {0, 10, 32, 65, 12288, 20320}

Strings == SeqsUpTo(StrSyms, MaxStrLen)

\* a token of 'A'; "A", which is not lowercase; a token of the surrogate
\* U+D800; a token of u32::MAX + 1
TokenPool ==
    {TokenOf(Str(<<6, 5>>)), <<65>>, TokenOf(Str(<<5, 5, 2, 9, 6>>)),
     TokenOf(Str(<<4, 2, 9, 4, 9, 6, 7, 2, 9, 6>>))}

\* texts of tokens: single spaces between them, or runs of whitespace between
\* and around them
Wires ==
    {join(ts, SEPARATOR) : ts \in SeqsUpTo(TokenPool, MaxTokens)}
        \cup {<<32>> \o join(ts, <<12288, 10>>) \o <<9>> : ts \in SeqsUpTo(TokenPool, MaxTokens)}

InitStr ==
    /\ cipher = Cipher_new(ALPHABET).cipher
    /\ caller = "str"
    /\ roundtrip \in BOOLEAN
    /\ IF roundtrip
       THEN /\ str_in \in Strings
            /\ wire = <<>>
            /\ pc = "es_loop"
       ELSE /\ str_in = <<>>
            /\ wire \in Wires
            /\ pc = "ds_split"
    /\ tokens = <<>>
    /\ result = <<>>
    /\ str_out = NoStrOutcome
    /\ calls = 0
    /\ EngineIdle
    /\ CharIdle
    /\ DisorderIdle

\* encrypt_str: `.map(|c| self.encrypt(c))` takes the next char of the text
EncryptStrChar ==
    /\ pc = "es_loop"
    /\ Len(tokens) < Len(str_in)
    /\ plain' = str_in[Len(tokens) + 1]
    /\ pc' = "uz_encrypt"
    /\ UNCHANGED <<cipher, input, n, res, iter, digit_list, i, panic, roundtrip, fwd, last,
                   caller, cipher_text, outcome, strVars, disorderVars>>

\* encrypt_str: `.collect::<Vec<_>>().join(" ")`; the String goes to decrypt_str
EncryptStrJoin ==
    /\ pc = "es_loop"
    /\ Len(tokens) >= Len(str_in)
    /\ wire' = join(tokens, SEPARATOR)
    /\ pc' = "ds_split"
    /\ UNCHANGED <<cipher, input, n, res, iter, digit_list, i, panic, roundtrip, fwd, last,
                   charVars, str_in, tokens, result, str_out, calls, disorderVars>>

\* decrypt_str: `let mut result = String::new()` and `text.split_whitespace()`
DecryptStrSplit ==
    /\ pc = "ds_split"
    /\ result' = <<>>
    /\ tokens' = split_whitespace(wire)
    /\ pc' = "ds_loop"
    /\ UNCHANGED <<cipher, input, n, res, iter, digit_list, i, panic, roundtrip, fwd, last,
                   charVars, str_in, wire, str_out, calls, disorderVars>>

\* decrypt_str: the next token of the iterator; `self.decrypt(token)` is called
\* unless the token is empty
DecryptStrToken ==
    /\ pc = "ds_loop"
    /\ tokens # <<>>
    /\ tokens' = Tail(tokens)
    /\ IF Head(tokens) = <<>>
       THEN UNCHANGED <<pc, cipher_text, outcome, calls>>
       ELSE /\ cipher_text' = Head(tokens)
            /\ outcome' = NoOutcome
            /\ calls' = calls + 1
            /\ pc' = "uz_decrypt"
    /\ UNCHANGED <<cipher, input, n, res, iter, digit_list, i, panic, roundtrip, fwd, last,
                   caller, plain, str_in, wire, result, str_out, disorderVars>>

\* decrypt_str: `let c = self.decrypt(token)?; result.push(c)`
DecryptStrResult ==
    /\ pc = "ds_result"
    /\ \E r \in {decrypt_str_turn(result, outcome)} :
           IF r.returned
           THEN /\ str_out' = r.str_out
                /\ pc' = "str_done"
                /\ UNCHANGED result
           ELSE /\ result' = r.result
                /\ pc' = "ds_loop"
                /\ UNCHANGED str_out
    /\ UNCHANGED <<cipher, input, n, res, iter, digit_list, i, panic, roundtrip, fwd, last,
                   charVars, str_in, wire, tokens, calls, disorderVars>>

\* decrypt_str: the iterator is exhausted, `Ok(result)`
DecryptStrReturn ==
    /\ pc = "ds_loop"
    /\ tokens = <<>>
    /\ str_out' = OkStr(result)
    /\ pc' = "str_done"
    /\ UNCHANGED <<cipher, input, n, res, iter, digit_list, i, panic, roundtrip, fwd, last,
                   charVars, str_in, wire, tokens, result, calls, disorderVars>>

NextStr ==
    \/ EncryptStrChar
    \/ EncryptStrJoin
    \/ DecryptStrSplit
    \/ DecryptStrToken
    \/ DecryptStrResult
    \/ DecryptStrReturn
    \/ UzEncrypt
    \/ UzDecrypt
    \/ UzFinish
    \/ Engine

SpecStr == InitStr /\ [][NextStr]_vars

----------------------------------------------------------------------------
(* Cipher::disorder, turn by turn, as encrypt_once and decrypt_once call it *)
(* on their buffer digit_list and their position i (its skip_idx).          *)

InitDisorder ==
    /\ cipher \in Ciphers
    /\ digit_list \in WellFormed(cipher.alphabet) \ {<<>>}
    /\ i \in 0..(Len(digit_list) - 1)
    /\ input = digit_list
    /\ pc = "disorder"
    /\ d_obj = SubSeq(cipher.alphabet, 1, Len(cipher.alphabet))
    /\ d_i = Len(cipher.alphabet) - 1
    /\ d_j = <<>>
    /\ d_pos_map = <<>>
    /\ n = 0
    /\ res = <<>>
    /\ iter = 0
    /\ panic = "none"
    /\ roundtrip = FALSE
    /\ fwd = <<>>
    /\ last = NoStep
    /\ caller = "encrypt_once"
    /\ CharIdle
    /\ StrIdle

\* one turn of `for i in (1..obj.len()).rev()`: the seed, then obj.swap(i, j)
DisorderTurn ==
    /\ pc = "disorder"
    /\ d_i >= 1
    /\ \E r \in {disorder_turn(cipher, digit_list, i, [panic |-> "none", obj |-> d_obj], d_i)} :
           IF r.panic # "none"
           THEN /\ pc' = "panicked"
                /\ panic' = r.panic
                /\ d_j' = Append(d_j, <<d_i, get_seed_mod(cipher, digit_list, i, d_i + 1).val>>)
                /\ UNCHANGED <<d_obj, d_i>>
           ELSE /\ d_obj' = r.obj
                /\ d_j' = Append(d_j, <<d_i, get_seed_mod(cipher, digit_list, i, d_i + 1).val>>)
                /\ d_i' = d_i - 1
                /\ UNCHANGED <<pc, panic>>
    /\ UNCHANGED <<cipher, input, n, res, iter, digit_list, i, roundtrip, fwd, last,
                   charVars, strVars, d_pos_map>>

\* the loop is over: pos_map is built from obj, and (obj, pos_map) is returned
DisorderReturn ==
    /\ pc = "disorder"
    /\ d_i < 1
    /\ d_pos_map' = [c \in 0..(TABLE_SIZE - 1) |-> pos_map_of(d_obj, POS_NOT_FOUND, c)]
    /\ pc' = "disorder_done"
    /\ UNCHANGED <<cipher, input, n, res, iter, digit_list, i, panic, roundtrip, fwd, last,
                   charVars, strVars, d_obj, d_i, d_j>>

NextDisorder ==
    \/ DisorderTurn
    \/ DisorderReturn

SpecDisorder == InitDisorder /\ [][NextDisorder]_vars

----------------------------------------------------------------------------
(* Properties of the engine *)

WellFormedRun == OverAlphabet(cipher.alphabet, input)

\* an encrypt_once or decrypt_once call of this run has returned a String
PassReturned ==
    \/ iter > 0
    \/ pc = "decrypt" /\ roundtrip /\ n > 0
    \/ pc = "done" /\ n > 0

\* C1: for every alphabet Cipher::new accepts, every digit sequence d over it
\* and every n >= 0, decrypt(encrypt(d, n), n) = d.
C1_RoundTrip ==
    (pc = "done" /\ roundtrip /\ WellFormedRun) => res = input

\* C5: an input of length >= 1 holding a symbol that is not in the alphabet
\* makes encrypt_once / decrypt_once fail: no pass ever returns an output.
C5_UnknownSymbolFatal ==
    (Len(input) >= 1 /\ ~WellFormedRun) => ~PassReturned

\* C8: on a digit sequence over the alphabet, the buffer keeps the input's length
\* and holds only symbols of the alphabet after every position step of every
\* pass, and so does every String a pass returns.
C8_LengthAndAlphabet ==
    WellFormedRun =>
        /\ panic = "none"
        /\ Len(res) = Len(input)
        /\ OverAlphabet(cipher.alphabet, res)
        /\ pc \in {"encrypt_once", "decrypt_once"} =>
               /\ Len(digit_list) = Len(input)
               /\ OverAlphabet(cipher.alphabet, digit_list)

\* C8's case: a backward position step in the middle of a pass has just rewritten
\* a symbol of a digit sequence over the alphabet
C8_Witness ==
    /\ WellFormedRun
    /\ pc = "decrypt_once"
    /\ i >= 0
    /\ last.kind = "backward"
    /\ last.after # last.before
    /\ iter = 1

\* C10: when the backward pass is about to process position i, the symbols at
\* the other positions are those the mirrored forward pass saw when it processed
\* i, and so are the permutation and the offset derived from them.
C10_ContextMatch ==
    (pc = "decrypt_once" /\ roundtrip /\ i >= 0 /\ WellFormedRun
        /\ Distinct(cipher.alphabet)) =>
        LET seen == fwd[Len(fwd)][i + 1]
        IN  /\ Others(digit_list, i) = seen.others
            /\ disorder(cipher, digit_list, i).obj = seen.capacity
            /\ get_seed_mod(cipher, digit_list, i, cipher.radix).val + i * i + 1
                   = seen.offset

\* C11: on an alphabet of distinct symbols (radix 1 up to 256) and a digit
\* sequence over it, the `pos != 255` guard never fires: at every position of the
\* forward and of the backward pass the lookup of the current symbol in the
\* permutation succeeds, and the position is rewritten, none is left as it was
\* by the guard.
C11_GuardNeverFires ==
    (WellFormedRun /\ Distinct(cipher.alphabet) /\ last.kind # "none") => ~last.guard

\* how many times c occurs in s
Count(s, c) == Cardinality({m \in 1..Len(s) : s[m] = c})

SameMultiset(a, b) ==
    /\ Len(a) = Len(b)
    /\ \A c \in Range(a) \cup Range(b) : Count(a, c) = Count(b, c)

\* C12: in disorder, for every alphabet, every digit sequence over it and every
\* skip index, the turns run at k = radix-1 down to 1, the seed j of turn k is
\* in 0..k (no swap indexes outside the table, nothing panics), every seed is 0
\* when the skip index excludes the only symbol, the table keeps the alphabet's
\* length throughout, and the table returned holds exactly the alphabet's
\* symbols (same multiset).
C12_FisherYates ==
    /\ pc # "panicked" /\ panic = "none"
    /\ Len(d_obj) = cipher.radix
    /\ \A t \in 1..Len(d_j) :
           /\ d_j[t][1] = cipher.radix - t
           /\ 0 <= d_j[t][2] /\ d_j[t][2] <= d_j[t][1]
           /\ Len(digit_list) = 1 => d_j[t][2] = 0
    /\ pc = "disorder_done" =>
           /\ Len(d_j) = cipher.radix - 1
           /\ SameMultiset(d_obj, cipher.alphabet)

\* C12's case: disorder has returned a table that is not in alphabet order,
\* after 25 turns on the a-z alphabet with a non-zero seed among them
C12_Witness ==
    /\ pc = "disorder_done"
    /\ cipher.radix = 26
    /\ Len(digit_list) >= 2
    /\ Len(d_j) = 25
    /\ \E t \in 1..Len(d_j) : d_j[t][2] > 0
    /\ d_obj # cipher.alphabet

----------------------------------------------------------------------------
(* Properties of UniAz::encrypt and UniAz::decrypt *)

\* the text holds a char that is not a symbol of the configured alphabet
HasForeign(text) == \E k \in 1..Len(text) : text[k] \notin Range(cipher.alphabet)

\* C2: for every Unicode scalar value cp, UniAz::decrypt(UniAz::encrypt(cp))
\* returns Ok(cp), and nothing panics on the way.
C2_CharRoundTrip ==
    roundtrip =>
        /\ pc # "panicked"
        /\ pc = "uz_done" => outcome = Ok(plain)

\* C2's case: char::MAX went through encrypt and decrypt
C2_Witness ==
    /\ roundtrip
    /\ pc = "uz_done"
    /\ plain = CHAR_MAX
    /\ Len(cipher_text) = 5
    /\ last.kind = "backward"

\* C4: UniAz::decrypt on a text with a char outside a-z returns
\* Err(InvalidCipherText), and no backward step and no conversion is run:
\* the call goes from its entry straight to its return.
C4_ForeignRejected ==
    HasForeign(cipher_text) =>
        /\ pc \in {"uz_decrypt", "uz_done"}
        /\ pc = "uz_done" => outcome = Err("InvalidCipherText")
        /\ last = NoStep
        /\ res = <<>> /\ digit_list = <<>> /\ iter = 0

\* C4's case: a text that begins with alphabet symbols and holds a foreign char
\* has been rejected
C4_Witness ==
    /\ pc = "uz_done"
    /\ Len(cipher_text) >= 2
    /\ cipher_text[1] \in Range(cipher.alphabet)
    /\ HasForeign(cipher_text)
    /\ outcome = Err("InvalidCipherText")

\* the number a numeral denotes is no Unicode scalar value: more than seven
\* decimal digits, above char::MAX, or a surrogate
NotScalar(decimal_digits) ==
    \/ Len(decimal_digits) > 7
    \/ digits_value(decimal_digits) > CHAR_MAX
    \/ digits_value(decimal_digits) \in SURROGATE_FIRST..SURROGATE_LAST

\* the decimal digits of the number the numeral (a string over a-z) denotes
Denoted(numeral) ==
    transcode([k \in 1..Len(numeral) |-> numeral[k] - 97], 26, 10, <<>>)

\* C7: for a token of alphabet symbols, when the numeral the two backward passes
\* leave denotes a number that is no Unicode scalar value, however large,
\* UniAz::decrypt returns Err(InvalidCodepoint); Err(InvalidToken) is returned
\* only when the codec cannot convert the numeral (it converts every non-empty
\* string over a-z).
C7_ErrorClassification ==
    (pc = "uz_done" /\ ~HasForeign(cipher_text) /\ cipher_text # <<>>) =>
        /\ NotScalar(Denoted(res)) => outcome = Err("InvalidCodepoint")
        /\ outcome # Err("InvalidToken")

\* the call of UniAz::decrypt is running
InDecrypt == pc \in {"uz_decrypt", "decrypt", "decrypt_once", "uz_convert"}

\* an upper bound on the steps UniAz::decrypt has left: what is left of the
\* running pass, the passes to come (each Len + 2 steps), the return of
\* cipher.decrypt and the conversion
StepsLeft ==
    CASE pc = "uz_decrypt" -> DECRYPT_ITERATIONS * (Len(cipher_text) + 2) + 3
      [] pc = "decrypt" -> (n - iter) * (Len(res) + 2) + 2
      [] pc = "decrypt_once" -> (i + 2) + (n - iter - 1) * (Len(digit_list) + 2) + 2
      [] pc = "uz_convert" -> 1
      [] OTHER -> 0

\* C9: UniAz::decrypt is total: whatever the text, the call never panics (no
\* unknown-symbol or non-ASCII panic, no index out of range), every step it
\* takes brings its return nearer, and what it returns is Ok(char),
\* Err(InvalidCipherText), Err(InvalidToken) or Err(InvalidCodepoint).
C9_DecryptTotal ==
    /\ [](pc # "panicked" /\ panic = "none")
    /\ [](pc = "uz_done" =>
            \/ outcome.tag = "Ok" /\ outcome.err = "none" /\ IsScalar(outcome.char)
            \/ outcome \in {Err("InvalidCipherText"), Err("InvalidToken"),
                            Err("InvalidCodepoint")})
    /\ [][InDecrypt => (StepsLeft' < StepsLeft /\ (StepsLeft' = 0 <=> pc' = "uz_done"))]_vars

\* C9's case: a text alone (no encrypt before it) went through both backward
\* passes and the conversion, and was found to denote no char
C9_Witness ==
    /\ ~roundtrip
    /\ pc = "uz_done"
    /\ last.kind = "backward"
    /\ outcome = Err("InvalidCodepoint")

----------------------------------------------------------------------------
(* Properties of UniAz::encrypt_str and UniAz::decrypt_str *)

\* C3: for every string s, the empty one and those with whitespace chars in
\* them included, decrypt_str(encrypt_str(s)) returns Ok(s): every char of s
\* becomes one token that is not empty and holds no whitespace, the text is the
\* tokens joined by single spaces, and split_whitespace gives the tokens back
\* in their order.
C3_StrRoundTrip ==
    roundtrip =>
        /\ pc # "panicked"
        /\ pc = "ds_split" =>
               /\ Len(tokens) = Len(str_in)
               /\ \A k \in 1..Len(tokens) :
                      /\ tokens[k] # <<>>
                      /\ \A m \in 1..Len(tokens[k]) : ~is_whitespace(tokens[k][m])
               /\ \A k \in 1..Len(wire) :
                      is_whitespace(wire[k]) =>
                          /\ wire[k] = 32
                          /\ 1 < k /\ k < Len(wire)
                          /\ ~is_whitespace(wire[k + 1])
               /\ split_whitespace(wire) = tokens
        /\ pc = "str_done" => str_out = OkStr(str_in)

\* C3's case: a string of two chars with a whitespace char in it made the round trip
C3_Witness ==
    /\ roundtrip
    /\ pc = "str_done"
    /\ Len(str_in) = 2
    /\ \E k \in 1..2 : is_whitespace(str_in[k])
    /\ calls = 2
    /\ str_out.tag = "Ok"

\* what UniAz::decrypt gives for each token of the text
Decoded(text) ==
    LET toks == split_whitespace(text)
    IN  [k \in 1..Len(toks) |-> CHOOSE o \in UniAz_decrypt(cipher, toks[k]) : TRUE]

\* C6: decrypt_str decodes the tokens left to right; when token k is the first
\* whose decrypt fails, with error e, it returns Err(e) after k calls of decrypt
\* (no token after k is decoded, no char decoded before k is returned); it
\* returns Ok only when every token decodes, with the chars in token order.
C6_AllOrNothing ==
    /\ (pc \in {"uz_decrypt", "decrypt", "decrypt_once", "uz_convert", "ds_result"}) =>
           /\ calls = Len(result) + 1
           /\ cipher_text = split_whitespace(wire)[calls]
    /\ pc = "str_done" =>
           LET outs == Decoded(wire)
               bad == {k \in 1..Len(outs) : outs[k].tag = "Err"}
           IN  IF bad = {}
               THEN /\ str_out = OkStr([k \in 1..Len(outs) |-> outs[k].char])
                    /\ calls = Len(outs)
               ELSE \E k \in bad :
                        /\ \A m \in bad : k <= m
                        /\ str_out = ErrStr(outs[k].err)
                        /\ calls = k

\* C6's case: of three tokens the first decoded, the second failed
C6_Witness ==
    /\ ~roundtrip
    /\ pc = "str_done"
    /\ Len(split_whitespace(wire)) = 3
    /\ calls = 2
    /\ str_out = ErrStr("InvalidCodepoint")

====
